---- MODULE Spec2Model ----
(***************************************************************************)
(* Monte Carlo simulation of the Dunning-Kruger experiment (src/app.py).   *)
(*                                                                         *)
(* generate_data draws two arrays of normal samples from a generator       *)
(* seeded inside the call, ranks each array with argsort().argsort(),      *)
(* scales the ranks to percentiles (rank * 100 // n) and bins each         *)
(* percentile column with polars' qcut(4, labels=QUARTILES).               *)
(* create_quartile_chart groups the table by a column and takes the mean   *)
(* of both percentile columns per group.                                   *)
(*                                                                         *)
(* Reals are modelled exactly as scaled integers: a correlation            *)
(* coefficient c is the integer CorrScale * c, a quantile break b is the   *)
(* integer 4 * b (breaks are multiples of 1/4), a mean is a reduced        *)
(* fraction.  Raw samples are small integers: only their order is used.    *)
(***************************************************************************)
EXTENDS Integers, Sequences, FiniteSets

VARIABLES
    build,              \* what the installed numpy/polars build does where the API leaves it open
    rng,                \* the generator object of generate_data (line 25)
    call,               \* the arguments of the last generate_data call
    test_score,         \* the raw test_score array of the last call
    perceived_ability,  \* the raw perceived_ability array, scaled by CorrScale
    data,               \* the DataFrame generate_data returned
    raised,             \* the exception generate_data raised, "none" if it returned
    chart,              \* the aggregated table behind create_quartile_chart's chart
    saved               \* a table the caller kept from an earlier call

vars == <<build, rng, call, test_score, perceived_ability, data, raised, chart, saved>>

----------------------------------------------------------------------------
(* Bounds of the model.                                                    *)

\* participant counts -1..MaxN are tried with every seed
MaxN == 4
\* seeds -1..MaxSeed
MaxSeed == 80
\* the model generator's output repeats after Period draws
Period == 5
\* raw samples take NumVals different values
NumVals == 3
\* a caller that repeats calls uses the counts -1..MaxCallN
MaxCallN == 2

\* real numbers c are carried as the integer CorrScale * c
CorrScale == 5

\* the sidebar's participant slider (lines 109-115)
SliderMin == 50
SliderMax == 150
SliderStep == 10

QUARTILES == <<"Bottom", "2nd", "3rd", "Top">>

Seeds == -1..MaxSeed
SmallCounts == -1..MaxN
SliderCounts == {n \in SliderMin..SliderMax : (n - SliderMin) % SliderStep = 0}
\* correlation coefficients 0.0, 0.6, 1.0
CorrCoefs == {0, 3, 5}
\* the seed tried with the slider's counts: the sidebar's default (line 125)
SliderSeeds == {42}
\* what a caller that repeats calls passes
CallCounts == -1..MaxCallN
CallSeeds == {7, 42}
CallCorrCoefs == {3, 5}
Columns == {"test_score_percentile", "perceived_ability_percentile",
            "test_score_quartile", "perceived_ability_quartile"}
QuartileColumns == {"test_score_quartile", "perceived_ability_quartile"}

----------------------------------------------------------------------------
(* Helpers.                                                                *)

RECURSIVE Pow(_, _)
Pow(b, e) == IF e = 0 THEN 1 ELSE b * Pow(b, e - 1)

RECURSIVE Gcd(_, _)
Gcd(a, b) == IF b = 0 THEN a ELSE Gcd(b, a % b)

\* Op applied to the value of v, with v evaluated once
Eval(Op(_), v) == CHOOSE y \in {Op(w) : w \in {v}} : TRUE

\* np.sqrt on CorrScale^2 * (1 - c^2), exact for the coefficients used
Sqrt(x) == CHOOSE r \in 0..CorrScale : r * r = x

----------------------------------------------------------------------------
(* numpy: the seeded generator and argsort.                                *)

\* a generator kept between calls: it goes on where the last call stopped
default_rng_shared(seed) == [seed |-> seed, pos |-> rng.pos]

\* np.random.default_rng(seed): a new generator at the start of its stream
default_rng(seed) == [seed |-> seed, pos |-> 0]

\* the k-th standard-normal sample (k >= 1) of the stream of a seed
Sample(seed, k) == ((seed \div Pow(NumVals, (k - 1) % Period)) % NumVals) - 1

\* rng.normal(size=n): the next n samples; the generator moves on by n
normal(g, n) ==
    [values |-> [i \in 1..n |-> Sample(g.seed, g.pos + i)],
     rng    |-> [seed |-> g.seed, pos |-> (g.pos + n) % Period]]

\* a.argsort(): the 0-based indices of a in ascending order of value; the
\* order among equal values is the build's (the default kind is not stable)
argsort(a, ties) ==
    LET Before(v, j, i) ==
            \/ v[j] < v[i]
            \/ v[j] = v[i] /\ IF ties = "low_index_first" THEN j < i ELSE j > i
        PlaceOf(v) == [i \in DOMAIN v |-> Cardinality({j \in DOMAIN v : Before(v, j, i)})]
        Invert(place) ==
            [p \in DOMAIN place |-> (CHOOSE i \in DOMAIN place : place[i] = p - 1) - 1]
        Order(v) == Eval(Invert, PlaceOf(v))
    IN  Eval(Order, a)

\* a single argsort: the sorting order taken for the ranks
RanksSingleArgsort(a, ties) == argsort(a, ties)

\* a.argsort().argsort(): the 0-based rank of every element
Ranks(a, ties) == argsort(argsort(a, ties), ties)

\* the noise added at full weight, whatever the coefficient
PerceivedAbilityFullNoise(corr, test, noise) ==
    [i \in DOMAIN test |-> corr * test[i] + CorrScale * noise[i]]

\* corr_coef * test_score + np.sqrt(1 - corr_coef * corr_coef) * noise
PerceivedAbility(corr, test, noise) ==
    [i \in DOMAIN test |->
        corr * test[i] + Sqrt(CorrScale * CorrScale - corr * corr) * noise[i]]

\* ranks * 100 // n_participants (on an empty array nothing is divided)
Percentiles(ranks, n) == [i \in DOMAIN ranks |-> (ranks[i] * 100) \div n]

----------------------------------------------------------------------------
(* polars: Expr.qcut(4, labels=QUARTILES).                                 *)

\* Series.sort(): the values in ascending order
SortAsc(col) ==
    LET Pick(order) == [p \in DOMAIN col |-> col[order[p] + 1]]
    IN  Eval(Pick, argsort(col, "low_index_first"))

\* fixed breaks at 25, 50 and 75 (cut instead of qcut)
FixedBreaks(s) == [k \in 1..3 |-> 4 * 25 * k]

\* 4 * quantile(k/4, interpolation="linear") of the sorted values s, k = 1..3:
\* float_idx = (len - 1) * k/4, base = floor(float_idx), top = min(base + 1, len - 1),
\* lower + (float_idx - base) * (upper - lower)
QuantileBreaks(s) ==
    LET n == Len(s)
    IN  [k \in 1..3 |->
            LET base  == (k * (n - 1)) \div 4
                rem   == (k * (n - 1)) % 4
                top   == IF base + 1 < n - 1 THEN base + 1 ELSE n - 1
                lower == s[base + 1]
                upper == s[top + 1]
            IN  IF lower = upper THEN 4 * lower ELSE 4 * lower + rem * (upper - lower)]

\* the bins counted from the top
BinFromTop(x, breaks) == Cardinality({k \in 1..3 : 4 * x < breaks[k]})

\* cut with right-closed bins: the bin of x is the number of breaks below x
Bin(x, breaks) == Cardinality({k \in 1..3 : 4 * x > breaks[k]})

\* the label by quantile binning of the ranks of the values (breaks at the
\* quarters of len - 1), not of the values
RankLabels(col, ties) ==
    LET Label(r) ==
            [i \in DOMAIN r |->
                QUARTILES[Cardinality({k \in 1..3 : 4 * r[i] > k * (Len(r) - 1)}) + 1]]
    IN  Eval(Label, Ranks(col, ties))

LabelsOfRanks(col, breaks) == RankLabels(col, "low_index_first")

\* cut(col, breaks, labels=QUARTILES): the label of every value
Labels(col, breaks) == [i \in DOMAIN col |-> QUARTILES[Bin(col[i], breaks) + 1]]

\* qcut: an exception, or the label of every value. Two equal breaks are a
\* DuplicateError (allow_duplicates=False). On a column without values the
\* build decides: newer builds return no labels, older ones panic on the
\* missing quantile.
qcut(col, bld) ==
    LET Cut(breaks) ==
            IF breaks[1] = breaks[2] \/ breaks[2] = breaks[3]
            THEN [error |-> "DuplicateError", labels |-> <<>>]
            ELSE [error |-> "none", labels |-> Labels(col, breaks)]
    IN  IF Len(col) = 0
        THEN IF bld.empty_qcut = "no_labels"
             THEN [error |-> "none", labels |-> <<>>]
             ELSE [error |-> "PanicException", labels |-> <<>>]
        ELSE Eval(Cut, Eval(QuantileBreaks, SortAsc(col)))

----------------------------------------------------------------------------
(* generate_data.                                                          *)

NoTable == [returned |-> FALSE,
            test_score_percentile |-> <<>>, perceived_ability_percentile |-> <<>>,
            test_score_quartile |-> <<>>, perceived_ability_quartile |-> <<>>]

NoChart == [returned |-> FALSE, quartile_col |-> "", raised |-> "none", rows |-> {}]

NoSaved == [kept |-> FALSE, others |-> FALSE,
            call |-> [corr_coef |-> 0, n_participants |-> 0, random_seed |-> 0],
            data |-> NoTable, raised |-> "none"]

\* pl.DataFrame({...}).with_columns(...): the table, or the exception of qcut
DataFrame(test_pct, perceived_pct, bld) ==
    LET Table(q) ==
            IF q[1].error # "none" THEN [raised |-> q[1].error, data |-> NoTable]
            ELSE IF q[2].error # "none" THEN [raised |-> q[2].error, data |-> NoTable]
            ELSE [raised |-> "none",
                  data |-> [returned |-> TRUE,
                            test_score_percentile |-> test_pct,
                            perceived_ability_percentile |-> perceived_pct,
                            test_score_quartile |-> q[1].labels,
                            perceived_ability_quartile |-> q[2].labels]]
    IN  Eval(Table, <<qcut(test_pct, bld), qcut(perceived_pct, bld)>>)

\* the caller's bookkeeping: a kept table sees that another call was made
NoteCall(c) ==
    saved' = IF saved.kept /\ c # saved.call THEN [saved EXCEPT !.others = TRUE] ELSE saved

Fail(g, kind) ==
    /\ rng' = g
    /\ test_score' = <<>>
    /\ perceived_ability' = <<>>
    /\ data' = NoTable
    /\ raised' = kind

\* generate_data(corr_coef, n_participants, random_seed), lines 20-45.
\* default_rng rejects a negative seed and normal a negative size, both with
\* ValueError.
GenerateData(corr_coef, n_participants, random_seed) ==
    /\ call' = [corr_coef |-> corr_coef, n_participants |-> n_participants,
                random_seed |-> random_seed]
    /\ NoteCall([corr_coef |-> corr_coef, n_participants |-> n_participants,
                 random_seed |-> random_seed])
    /\ chart' = NoChart
    /\ UNCHANGED build
    /\ IF random_seed < 0 THEN Fail(rng, "ValueError")
       ELSE IF n_participants < 0 THEN Fail(default_rng(random_seed), "ValueError")
       ELSE \E first \in {normal(default_rng(random_seed), n_participants)} :
            \E second \in {normal(first.rng, n_participants)} :
            \E perceived \in {PerceivedAbility(corr_coef, first.values, second.values)} :
            \E test_pct \in {Percentiles(Ranks(first.values, build.ties), n_participants)} :
            \E perceived_pct \in {Percentiles(Ranks(perceived, build.ties), n_participants)} :
            \E df \in {DataFrame(test_pct, perceived_pct, build)} :
                /\ rng' = second.rng
                /\ test_score' = first.values
                /\ perceived_ability' = perceived
                /\ data' = df.data
                /\ raised' = df.raised

----------------------------------------------------------------------------
(* create_quartile_chart.                                                  *)

\* data.select(name): the column of that name
Column(df, name) ==
    CASE name = "test_score_percentile" -> df.test_score_percentile
      [] name = "perceived_ability_percentile" -> df.perceived_ability_percentile
      [] name = "test_score_quartile" -> df.test_score_quartile
      [] name = "perceived_ability_quartile" -> df.perceived_ability_quartile

\* group_by(col): one group per value that occurs in the column
GroupKeys(col) == {col[i] : i \in 1..Len(col)}

\* the sum of values[lo..hi] over the rows of a group
RECURSIVE SumOver(_, _, _, _)
SumOver(values, group, lo, hi) ==
    IF lo > hi THEN 0
    ELSE IF lo = hi THEN (IF lo \in group THEN values[lo] ELSE 0)
    ELSE LET Halves(mid) == SumOver(values, group, lo, mid) + SumOver(values, group, mid + 1, hi)
         IN  Eval(Halves, (lo + hi) \div 2)

\* .sum() instead of .mean()
SumNotMean(values, group) == [num |-> SumOver(values, group, 1, Len(values)), den |-> 1]

\* .mean() of one column over the rows of a group, as a reduced fraction
Mean(values, group) ==
    LET Reduce(t) == [num |-> t[1] \div Gcd(t[1], t[2]), den |-> t[2] \div Gcd(t[1], t[2])]
    IN  Eval(Reduce, <<SumOver(values, group, 1, Len(values)), Cardinality(group)>>)

\* the two rows of one group: its mean of each percentile column
GroupRows(df, by, key) ==
    LET Rows(group) ==
            {[key |-> key, variable |-> "test_score",
              average |-> Mean(df.test_score_percentile, group)],
             [key |-> key, variable |-> "perceived_ability",
              average |-> Mean(df.perceived_ability_percentile, group)]}
    IN  Eval(Rows, {i \in DOMAIN by : by[i] = key})

\* select(...).group_by(quartile_col).mean().melt(id_vars=quartile_col,
\* value_name="average"): per group one row for each of the two variables
Aggregate(df, quartile_col) ==
    LET Groups(by) == UNION {GroupRows(df, by, key) : key \in GroupKeys(by)}
    IN  Eval(Groups, Column(df, quartile_col))

\* create_quartile_chart(data, quartile_col), lines 55-74: any column of the
\* table is accepted; a name the table does not have fails in select
CreateQuartileChart(quartile_col) ==
    /\ data.returned
    /\ chart' = IF quartile_col \in Columns
                THEN [returned |-> TRUE, quartile_col |-> quartile_col,
                      raised |-> "none", rows |-> Aggregate(data, quartile_col)]
                ELSE [returned |-> FALSE, quartile_col |-> quartile_col,
                      raised |-> "ColumnNotFoundError", rows |-> {}]
    /\ UNCHANGED <<build, rng, call, test_score, perceived_ability, data, raised, saved>>

----------------------------------------------------------------------------
(* The callers.                                                            *)

Called == data.returned \/ raised # "none"

\* the caller keeps the outcome of the call just made (data = generate_data(...),
\* lines 127-131), to compare it with later calls
Keep ==
    /\ Called
    /\ saved' = [kept |-> TRUE, others |-> FALSE, call |-> call,
                 data |-> data, raised |-> raised]
    /\ UNCHANGED <<build, rng, call, test_score, perceived_ability, data, raised, chart>>

Init ==
    /\ build \in [ties : {"low_index_first", "high_index_first"},
                  empty_qcut : {"no_labels", "panic"}]
    /\ rng = [seed |-> 0, pos |-> 0]
    /\ call = [corr_coef |-> 0, n_participants |-> 0, random_seed |-> 0]
    /\ test_score = <<>>
    /\ perceived_ability = <<>>
    /\ data = NoTable
    /\ raised = "none"
    /\ chart = NoChart
    /\ saved = NoSaved

\* One run of the script (lines 127-143) calls generate_data once and then
\* draws charts from its table.
\* any small count with any seed
Generate ==
    /\ ~Called
    /\ \E corr_coef \in CorrCoefs, n_participants \in SmallCounts, random_seed \in Seeds :
        GenerateData(corr_coef, n_participants, random_seed)

\* the counts the sidebar offers
GenerateSlider ==
    /\ ~Called
    /\ \E corr_coef \in CorrCoefs, n_participants \in SliderCounts, random_seed \in SliderSeeds :
        GenerateData(corr_coef, n_participants, random_seed)

\* a chart of the table, by any column name (a chart depends on nothing but
\* the table and the name, so one chart per run shows every chart)
Chart ==
    /\ chart = NoChart
    /\ \E quartile_col \in Columns \cup {"participant"} : CreateQuartileChart(quartile_col)

Next == Generate \/ GenerateSlider \/ Chart

Spec == Init /\ [][Next]_vars

\* a caller that repeats calls and compares the tables
Repeat ==
    \E corr_coef \in CallCorrCoefs, n_participants \in CallCounts, random_seed \in CallSeeds :
        GenerateData(corr_coef, n_participants, random_seed)

NextCalls == Repeat \/ Keep

SpecCalls == Init /\ [][NextCalls]_vars

----------------------------------------------------------------------------
(* Properties.                                                             *)

Rows == DOMAIN data.test_score_percentile

\* the place of a label in the order Bottom < 2nd < 3rd < Top
QuartileIndex(label) == CHOOSE k \in 1..4 : QUARTILES[k] = label

\* the number of participants with each label, Bottom to Top
GroupSizes(labels) == [k \in 1..4 |-> Cardinality({i \in DOMAIN labels : labels[i] = QUARTILES[k]})]

Balanced(labels) ==
    LET AtMostOneApart(sizes) == \A k, l \in 1..4 : sizes[k] - sizes[l] <= 1
    IN  Eval(AtMostOneApart, GroupSizes(labels))

\* col has n values, and each value as often as floor(k * 100 / n) takes it for k in 0..n-1
Covers(col, n) ==
    /\ Len(col) = n
    /\ \A v \in 0..100 :
          Cardinality({i \in DOMAIN col : col[i] = v})
              = Cardinality({k \in 0..(n - 1) : (k * 100) \div n = v})
    /\ \A i \in DOMAIN col : col[i] \in 0..99

\* labels never go down as the values of by go up
Monotone(by, labels) ==
    \A i, j \in DOMAIN by : by[i] > by[j] => QuartileIndex(labels[i]) >= QuartileIndex(labels[j])

\* C1: a call with n_participants < 1 ends in an invalid-argument error
\* (Python's ValueError) and returns no table, not even an empty one.
C1_CountBelowOneRejected ==
    (Called /\ call.n_participants < 1) => (~data.returned /\ raised = "ValueError")

\* C2: for every n_participants >= 1 (and a seed the generator accepts) the
\* call returns a table of n_participants rows, and each percentile column
\* holds exactly the values floor(k * 100 / n) for k = 0..n-1, all in [0, 100).
C2_PercentileCoverage ==
    (Called /\ call.n_participants >= 1 /\ call.random_seed >= 0) =>
        /\ data.returned
        /\ Covers(data.test_score_percentile, call.n_participants)
        /\ Covers(data.perceived_ability_percentile, call.n_participants)

\* C3: rank monotonicity: in a returned table a strictly greater raw value
\* never has a smaller percentile, for test score and for perceived ability.
C3_RankMonotone ==
    data.returned =>
        \A i, j \in Rows :
            /\ test_score[i] > test_score[j] =>
                   data.test_score_percentile[i] >= data.test_score_percentile[j]
            /\ perceived_ability[i] > perceived_ability[j] =>
                   data.perceived_ability_percentile[i] >= data.perceived_ability_percentile[j]

C3_Witness ==
    /\ data.returned
    /\ \E i, j, k \in Rows :
          /\ test_score[i] > test_score[j] /\ test_score[j] > test_score[k]
          /\ data.test_score_percentile[i] > data.test_score_percentile[j]
          /\ perceived_ability[k] > perceived_ability[i]
          /\ data.perceived_ability_percentile[k] > data.perceived_ability_percentile[i]

\* C4: quartile-percentile consistency: in a returned table a participant
\* with a greater percentile is never in a lower quartile, in the order
\* Bottom < 2nd < 3rd < Top, for both pairs of columns.
C4_QuartileFollowsPercentile ==
    data.returned =>
        /\ Monotone(data.test_score_percentile, data.test_score_quartile)
        /\ Monotone(data.perceived_ability_percentile, data.perceived_ability_quartile)

C4_Witness ==
    /\ data.returned
    /\ \A k \in 1..4 : \E i \in Rows : data.test_score_quartile[i] = QUARTILES[k]
    /\ \E i \in Rows : data.test_score_quartile[i] # data.perceived_ability_quartile[i]

C6_PerfectCorrelation ==
    (data.returned /\ call.corr_coef = CorrScale) =>
        /\ data.perceived_ability_percentile = data.test_score_percentile
        /\ data.perceived_ability_quartile = data.test_score_quartile

C6_Witness ==
    /\ data.returned
    /\ call.corr_coef = CorrScale
    /\ call.n_participants = 4
    /\ \E i, j \in Rows : test_score[i] < test_score[j] /\ i > j

\* C7: determinism and call-order independence: a call with the arguments
\* of an earlier call ends as the earlier call did (same table, same
\* exception), whatever calls were made in between.
C7_SameArgumentsSameTable ==
    (saved.kept /\ Called /\ call = saved.call) =>
        (data = saved.data /\ raised = saved.raised)

C7_Witness ==
    /\ saved.kept
    /\ saved.others
    /\ call = saved.call
    /\ data.returned
    /\ call.n_participants >= 2

\* C8: the table behind a chart by a quartile column has, for each label
\* with at least one participant, exactly one row per variable, whose value
\* is the mean of that variable's percentile over the participants with the
\* label; a label without participants has no row.
C8_QuartileAverages ==
    (chart.returned /\ chart.quartile_col \in QuartileColumns) =>
        LET by == Column(data, chart.quartile_col)
            Value(variable) == IF variable = "test_score"
                               THEN data.test_score_percentile
                               ELSE data.perceived_ability_percentile
        IN  /\ \A r \in chart.rows :
                  /\ r.key \in {QUARTILES[k] : k \in 1..4}
                  /\ r.variable \in {"test_score", "perceived_ability"}
            /\ \A k \in 1..4, variable \in {"test_score", "perceived_ability"} :
                  LET group == {i \in DOMAIN by : by[i] = QUARTILES[k]}
                      rows  == {r \in chart.rows : r.key = QUARTILES[k] /\ r.variable = variable}
                  IN  IF group = {} THEN rows = {}
                      ELSE /\ Cardinality(rows) = 1
                           /\ \A r \in rows :
                                 /\ r.average.den > 0
                                 /\ r.average.num * Cardinality(group)
                                      = r.average.den
                                          * SumOver(Value(variable), group, 1, Len(by))

C8_Witness ==
    /\ chart.returned
    /\ chart.quartile_col = "perceived_ability_quartile"
    /\ Cardinality(chart.rows) = 8
    /\ \E r \in chart.rows : r.variable = "test_score" /\ r.average.den > 1

\* C9: a chart (of a table with participants) by a column that is not one
\* of the two quartile columns ends in an error and produces no aggregated
\* table.
C9_OtherColumnRejected ==
    (chart.quartile_col \notin QuartileColumns \cup {""} /\ Len(data.test_score_percentile) >= 2) =>
        (~chart.returned /\ chart.raised # "none")

\* C10: in a returned table two participants with the same percentile have
\* the same quartile label, for both pairs of columns.
C10_LabelByPercentile ==
    data.returned =>
        \A i, j \in Rows :
            /\ data.test_score_percentile[i] = data.test_score_percentile[j] =>
                   data.test_score_quartile[i] = data.test_score_quartile[j]
            /\ data.perceived_ability_percentile[i] = data.perceived_ability_percentile[j] =>
                   data.perceived_ability_quartile[i] = data.perceived_ability_quartile[j]

C10_Witness ==
    /\ data.returned
    /\ \E i, j \in Rows :
          /\ i # j
          /\ data.test_score_percentile[i] = data.test_score_percentile[j]
          /\ data.test_score_quartile[i] = data.test_score_quartile[j]
    /\ data.perceived_ability_quartile # RankLabels(perceived_ability, build.ties)

====
